---------------------------- MODULE Spec2Model ----------------------------
(***************************************************************************)
(* The scheduling engine of the Rutgers scheduler: the value objects of    *)
(* scheduler_core.py (TimeSlot, Section, Course, ScheduleConstraints) and  *)
(* the backtracking search DeepSeekSchedulerStrategy.generate_schedules of *)
(* scheduler_strategies.py, one action per step of the recursion; with     *)
(* them Section._parse_times, PrerequisiteParser.filter_completed_courses  *)
(* and the key, model and retry loops of GeminiAgent._call_gemini.         *)
(***************************************************************************)
EXTENDS Integers, Sequences, FiniteSets, TLC

VARIABLES
    courses,            \* the caller's course list (argument `courses`)
    raw_no_days,        \* the day tokens handed to ScheduleConstraints
    constraints,        \* the ScheduleConstraints argument (or None)
    max_schedules,      \* Config.MAX_SCHEDULES, read at every backtrack entry
    sorted_courses,     \* local sorted_courses
    valid_schedules,    \* local valid_schedules (the returned list)
    current_schedule,   \* the shared partial schedule
    stack,              \* the frames of backtrack(), innermost last
    pc,                 \* "init" | "run" | "done"
    calls,              \* number of the caller's call, 1 or 2
    first_result,       \* the list the caller's first call returned
    again,              \* how the caller made its second call
    parked,             \* the call of the other thread while this one runs
    tid,                \* the thread that is running
    fn,                 \* the function a caller applies on its own
    args,               \* its arguments
    ret,                \* what it returned
    agent,              \* the GeminiAgent: api_keys, working_model
    request             \* the locals of the running _call_gemini call

engine == <<courses, raw_no_days, constraints, max_schedules, sorted_courses,
            valid_schedules, current_schedule, stack, pc>>

\* the caller's second call, the other thread, the function applied alone
others == <<calls, first_result, again, parked, tid, fn, args, ret, agent, request>>

vars == <<engine, others>>

inputs == <<courses, raw_no_days, constraints, max_schedules>>

-----------------------------------------------------------------------------
(* Bounds of the model and constants of the program *)

\* longest course list handed to generate_schedules
MaxCourses == 3

\* largest configured result cap below the shipped default
MaxCap == 2

\* latest minute of a TimeSlot handed to TimeSlot.overlaps on its own
MaxMinute == 3

\* most raw meeting records of a section handed to _parse_times on its own
MaxRecords == 2

\* most target courses, and most history entries, handed to
\* filter_completed_courses
MaxTargets == 2

\* most TimeSlots of a section handed to _check_travel on its own
MaxTravelSlots == 2

\* most API keys configured, and most models in the agent's list
MaxKeys == 2

\* most calls of _call_gemini on one agent
MaxGeminiCalls == 2

\* most courses in the request of each of two concurrent calls
MaxThreadCourses == 2

\* Config.MAX_SCHEDULES as shipped
MAX_SCHEDULES == 50

\* the default of the parameter max_retries of _call_gemini
max_retries == 3

STANDARD_TRAVEL_MINUTES == 40

SHORT_TRAVEL_MINUTES == 30

-----------------------------------------------------------------------------
(* Value objects *)

TimeSlot(day, start_time, end_time, campus) ==
    [day |-> day, start_time |-> start_time, end_time |-> end_time,
     campus |-> campus]

Section(index, time_slots, open_status) ==
    [index |-> index, time_slots |-> time_slots, open_status |-> open_status]

Course(code, sections, prereqs) ==
    [code |-> code, sections |-> sections, prereqs |-> prereqs]

\* str.upper() on the strings the model uses
Upper(s) ==
    CASE s = "f" -> "F"
      [] s = "m" -> "M"
      [] s = "friday" -> "FRIDAY"
      [] s = "Fri" -> "FRI"
      [] s = "someday" -> "SOMEDAY"
      [] s = "Busch" -> "BUSCH"
      [] OTHER -> s

\* `needle in hay` for the campus names of the catalog
Contains(hay, needle) ==
    CASE needle = "ONLINE" -> hay \in {"ONLINE"}
      [] needle = "BUSCH" -> hay \in {"BUSCH"}
      [] needle = "LIV" -> hay \in {"LIVINGSTON"}
      [] OTHER -> FALSE

Max(a, b) == IF a >= b THEN a ELSE b

Min(a, b) == IF a <= b THEN a ELSE b

\* closed intervals: `<=` for `<`
TimeSlotOverlaps_closed(self, other) ==
    IF self.day # other.day
    THEN FALSE
    ELSE Max(self.start_time, other.start_time) <= Min(self.end_time, other.end_time)

\* TimeSlot.overlaps
TimeSlotOverlaps(self, other) ==
    IF self.day # other.day
    THEN FALSE
    ELSE Max(self.start_time, other.start_time) < Min(self.end_time, other.end_time)

\* a section without TimeSlots overlaps every section
SectionOverlaps_unscheduled(self, other) ==
    \/ self.time_slots = <<>>
    \/ other.time_slots = <<>>
    \/ \E i \in 1..Len(self.time_slots) :
          \E j \in 1..Len(other.time_slots) :
              TimeSlotOverlaps(self.time_slots[i], other.time_slots[j])

\* Section.overlaps
SectionOverlaps(self, other) ==
    \E i \in 1..Len(self.time_slots) :
        \E j \in 1..Len(other.time_slots) :
            TimeSlotOverlaps(self.time_slots[i], other.time_slots[j])

\* Python's None
None == "None"

\* strings that are taken apart are sequences of their characters
Digits == {"0", "1", "2", "3", "4", "5", "6", "7", "8", "9"}

DigitValue(c) ==
    CASE c = "0" -> 0 [] c = "1" -> 1 [] c = "2" -> 2 [] c = "3" -> 3
      [] c = "4" -> 4 [] c = "5" -> 5 [] c = "6" -> 6 [] c = "7" -> 7
      [] c = "8" -> 8 [] c = "9" -> 9

\* int(s) raises ValueError unless s is a non-empty run of digits
IntRaises(s) == s = <<>> \/ \E i \in 1..Len(s) : s[i] \notin Digits

RECURSIVE IntOf(_)
IntOf(s) ==
    IF s = <<>> THEN 0
    ELSE IntOf(SubSeq(s, 1, Len(s) - 1)) * 10 + DigitValue(s[Len(s)])

NotColon(c) == c # ":"

\* 12 hours added for every hour with the PM indicator
ConvertToMinutes_noon(time_str, pm_code) ==
    LET s == SelectSeq(time_str, NotColon)
        hours_str == SubSeq(s, 1, Min(2, Len(s)))
        minutes_str == SubSeq(s, 3, Len(s))
    IN  IF IntRaises(hours_str) THEN 0
        ELSE IF Len(s) > 2 /\ IntRaises(minutes_str) THEN 0
        ELSE LET parsed == IntOf(hours_str)
                 minutes == IF Len(s) > 2 THEN IntOf(minutes_str) ELSE 0
                 hours == IF pm_code = "P" THEN parsed + 12 ELSE parsed
             IN  hours * 60 + minutes

\* Section._convert_to_minutes
ConvertToMinutes(time_str, pm_code) ==
    LET s == SelectSeq(time_str, NotColon)
        hours_str == SubSeq(s, 1, Min(2, Len(s)))
        minutes_str == SubSeq(s, 3, Len(s))
    IN  IF IntRaises(hours_str) THEN 0
        ELSE IF Len(s) > 2 /\ IntRaises(minutes_str) THEN 0
        ELSE LET parsed == IntOf(hours_str)
                 minutes == IF Len(s) > 2 THEN IntOf(minutes_str) ELSE 0
                 hours == IF pm_code = "P" /\ parsed # 12 THEN parsed + 12 ELSE parsed
             IN  hours * 60 + minutes

\* one iteration of the loop of Section._parse_times: the slots it appends
ParseRecord(mt) ==
    IF mt.meetingDay = None THEN <<>>
    ELSE IF mt.startTime = <<>> \/ mt.endTime = <<>> THEN <<>>
    ELSE
        LET campus == IF mt.campusName = None THEN "UNKNOWN" ELSE Upper(mt.campusName)
            start_minutes == ConvertToMinutes(mt.startTime, mt.pmCode)
            parsed_end == ConvertToMinutes(mt.endTime, mt.pmCode)
            end_minutes == IF parsed_end < start_minutes
                           THEN parsed_end + 12 * 60 ELSE parsed_end
        IN  << TimeSlot(mt.meetingDay, start_minutes, end_minutes, campus) >>

\* Section._parse_times
RECURSIVE ParseTimes(_)
ParseTimes(meeting_times) ==
    IF meeting_times = <<>> THEN <<>>
    ELSE ParseTimes(SubSeq(meeting_times, 1, Len(meeting_times) - 1))
             \o ParseRecord(meeting_times[Len(meeting_times)])

\* the tokens stored as they were given
ScheduleConstraints_as_given(no_days) == [present |-> TRUE, no_days |-> no_days]

\* ScheduleConstraints.__init__ ; no_days None means no constraints object
NoConstraints == [present |-> FALSE, no_days |-> <<>>]

ScheduleConstraints(no_days) ==
    [present |-> TRUE, no_days |-> [i \in 1..Len(no_days) |-> Upper(no_days[i])]]

\* `needle in hay` for a day code and the stored tokens
DayWithin(hay, needle) ==
    \/ hay = needle
    \/ needle = "M" /\ hay \in {"SOMEDAY"}
    \/ needle = "F" /\ hay \in {"FRIDAY", "FRI"}

\* the day code looked for inside each stored token
InList_substring(x, list) == \E i \in 1..Len(list) : DayWithin(list[i], x)

\* `x in list`
InList(x, list) == \E i \in 1..Len(list) : list[i] = x

-----------------------------------------------------------------------------
(* The catalog the repository resolves course codes from *)

Catalog ==
    <<
      Course("198:111",
             << Section("10001", <<TimeSlot("M", 600, 650, "BUSCH")>>, TRUE) >>,
             {}),
      Course("198:112",
             << Section("10002", <<TimeSlot("M", 660, 710, "LIVINGSTON")>>, TRUE),
                Section("10003", <<TimeSlot("M", 680, 730, "LIVINGSTON")>>, TRUE) >>,
             {"640:026", "160:161"}),
      Course("640:151",
             << Section("10004", <<TimeSlot("M", 630, 680, "BUSCH")>>, TRUE),
                Section("10005", <<TimeSlot("M", 650, 700, "BUSCH")>>, TRUE) >>,
             {}),
      Course("750:203",
             << Section("10006", <<TimeSlot("T", 600, 650, "COLLEGE AVENUE")>>, FALSE),
                Section("10007", <<TimeSlot("M", 685, 735, "COLLEGE AVENUE")>>, TRUE),
                Section("10008", <<TimeSlot("M", 690, 740, "COLLEGE AVENUE")>>, TRUE) >>,
             {}),
      Course("355:101",
             << Section("10009", <<TimeSlot("F", 600, 650, "BUSCH"),
                                   TimeSlot("F", 660, 710, "LIVINGSTON")>>, TRUE) >>,
             {}),
      Course("640:152",
             << Section("10010", <<TimeSlot("M", 655, 675, "ONLINE")>>, TRUE),
                Section("10011", <<>>, TRUE) >>,
             {"640:151"}),
      Course("090:101",
             << Section("10013", <<TimeSlot("W", 600, 650, "BUSCH")>>, FALSE) >>,
             {}),
      Course("160:161", << >>, {"198:111"})
    >>

\* the requests: lists of distinct catalog courses, at most MaxCourses long
Requests ==
    UNION { { s \in [1..n -> 1..Len(Catalog)] :
                \A i, j \in 1..n : i # j => s[i] # s[j] } : n \in 0..MaxCourses }

\* the day-token lists a caller passes to ScheduleConstraints
NoDaysInputs == { <<>>, <<"F">>, <<"friday", "m">>, <<"someday", "F">> }

CapValues == (0..MaxCap) \cup {MAX_SCHEDULES}

-----------------------------------------------------------------------------
(* generate_schedules *)

\* an unstable sort: a course goes before the placed courses of equal count
SortInsert_unstable(s, c) ==
    LET k == Cardinality({ i \in 1..Len(s) : Len(s[i].sections) < Len(c.sections) })
    IN  SubSeq(s, 1, k) \o <<c>> \o SubSeq(s, k + 1, Len(s))

\* sorted(courses, key=lambda c: len(c.sections)), a stable sort
SortInsert(s, c) ==
    LET k == Cardinality({ i \in 1..Len(s) : Len(s[i].sections) <= Len(c.sections) })
    IN  SubSeq(s, 1, k) \o <<c>> \o SubSeq(s, k + 1, Len(s))

RECURSIVE SortPrefix(_, _)
SortPrefix(cs, n) ==
    IF n = 0 THEN <<>> ELSE SortInsert(SortPrefix(cs, n - 1), cs[n])

\* the sort left out: courses are placed in input order
SortCourses_unsorted(cs) == cs

SortCourses(cs) == SortPrefix(cs, Len(cs))

\* `<=` for `<`: a gap equal to the allowance fails
TravelSlotsOk_strict(slot1, slot2) ==
    IF slot1.day # slot2.day THEN TRUE
    ELSE
        LET first  == IF slot1.end_time < slot2.start_time THEN slot1 ELSE slot2
            second == IF slot1.end_time < slot2.start_time THEN slot2 ELSE slot1
            gap    == second.start_time - first.end_time
            c1     == Upper(slot1.campus)
            c2     == Upper(slot2.campus)
            is_pair_BL == \/ (Contains(c1, "BUSCH") /\ Contains(c2, "LIV"))
                          \/ (Contains(c1, "LIV") /\ Contains(c2, "BUSCH"))
            required_time == IF is_pair_BL THEN SHORT_TRAVEL_MINUTES
                             ELSE STANDARD_TRAVEL_MINUTES
        IN  IF c1 = c2 \/ Contains(c1, "ONLINE") \/ Contains(c2, "ONLINE")
            THEN TRUE
            ELSE ~(gap <= required_time)

\* the short allowance applied to every pair of campuses
TravelSlotsOk_short(slot1, slot2) ==
    IF slot1.day # slot2.day THEN TRUE
    ELSE
        LET first  == IF slot1.end_time < slot2.start_time THEN slot1 ELSE slot2
            second == IF slot1.end_time < slot2.start_time THEN slot2 ELSE slot1
            gap    == second.start_time - first.end_time
            c1     == Upper(slot1.campus)
            c2     == Upper(slot2.campus)
        IN  IF c1 = c2 \/ Contains(c1, "ONLINE") \/ Contains(c2, "ONLINE")
            THEN TRUE
            ELSE ~(gap < SHORT_TRAVEL_MINUTES)

\* _check_travel: TRUE if travel between the two sections is feasible
TravelSlotsOk(slot1, slot2) ==
    IF slot1.day # slot2.day THEN TRUE
    ELSE
        LET first  == IF slot1.end_time < slot2.start_time THEN slot1 ELSE slot2
            second == IF slot1.end_time < slot2.start_time THEN slot2 ELSE slot1
            gap    == second.start_time - first.end_time
            c1     == Upper(slot1.campus)
            c2     == Upper(slot2.campus)
            is_pair_BL == \/ (Contains(c1, "BUSCH") /\ Contains(c2, "LIV"))
                          \/ (Contains(c1, "LIV") /\ Contains(c2, "BUSCH"))
            required_time == IF is_pair_BL THEN SHORT_TRAVEL_MINUTES
                             ELSE STANDARD_TRAVEL_MINUTES
        IN  IF c1 = c2 \/ Contains(c1, "ONLINE") \/ Contains(c2, "ONLINE")
            THEN TRUE
            ELSE ~(gap < required_time)

check_travel(sec1, sec2) ==
    \A i \in 1..Len(sec1.time_slots) :
        \A j \in 1..Len(sec2.time_slots) :
            TravelSlotsOk(sec1.time_slots[i], sec2.time_slots[j])

\* the loop returns after the first placed section
has_issue_first(new_section, schedule) ==
    /\ schedule # <<>>
    /\ \/ SectionOverlaps(new_section, schedule[1])
       \/ ~check_travel(new_section, schedule[1])

\* _has_issue: overlap or infeasible travel against any placed section
has_issue(new_section, schedule) ==
    \E i \in 1..Len(schedule) :
        \/ SectionOverlaps(new_section, schedule[i])
        \/ ~check_travel(new_section, schedule[i])

\* the day check left out
satisfies_constraints_always(section, cons) == TRUE

\* _satisfies_constraints
satisfies_constraints(section, cons) ==
    \A i \in 1..Len(section.time_slots) :
        ~InList(Upper(section.time_slots[i].day), cons.no_days)

\* only the first of the two membership tests
PrereqConflict_one_way(current_course, schedule, sorted) ==
    \E i \in 1..Len(schedule) : sorted[i].code \in current_course.prereqs

\* the prerequisite loop left out
PrereqConflict_never(current_course, schedule, sorted) == FALSE

\* a placed course and the current one are also taken as related when one
\* requires a course of the catalog that requires the other
PrereqConflict_transitive(current_course, schedule, sorted) ==
    \E i \in 1..Len(schedule) :
        \/ sorted[i].code \in current_course.prereqs
        \/ current_course.code \in sorted[i].prereqs
        \/ \E b \in 1..Len(Catalog) :
              \/ Catalog[b].code \in current_course.prereqs
                    /\ sorted[i].code \in Catalog[b].prereqs
              \/ Catalog[b].code \in sorted[i].prereqs
                    /\ current_course.code \in Catalog[b].prereqs

\* the prerequisite loop of backtrack: TRUE if it returns
PrereqConflict(current_course, schedule, sorted) ==
    \E i \in 1..Len(schedule) :
        \/ sorted[i].code \in current_course.prereqs
        \/ current_course.code \in sorted[i].prereqs

\* a cap of 0 read as no cap
CapReached_positive(n, cap) == cap > 0 /\ n >= cap

\* the cap test left out
CapReached_never(n, cap) == FALSE

\* `>` for `>=`
CapReached_off_by_one(n, cap) == n > cap

\* `len(valid_schedules) >= Config.MAX_SCHEDULES`
CapReached(n, cap) == n >= cap

\* the open test left out
IsOpen_any(section) == TRUE

\* `if not section.open_status: continue`
IsOpen(section) == section.open_status

\* the loop never advances
NextSection_stuck(sec) == sec

\* the section after the next one
NextSection_skip(sec) == sec + 2

\* `for section in current_course.sections`: the next section of the loop
NextSection(sec) == sec + 1

\* the pushed section left on the partial schedule
PopLast_kept(schedule) == schedule

\* current_schedule.pop()
PopLast(schedule) == SubSeq(schedule, 1, Len(schedule) - 1)

\* the recorded Schedules are the partial schedule itself: append(current_schedule)
RecordedAfter_aliased(results, partial) == [i \in 1..Len(results) |-> partial]

\* the recorded Schedules after a push or a pop has changed the partial
\* schedule: list(current_schedule) recorded copies, which stay as they were
RecordedAfter(results, partial) == results

Frame(course_idx, at, sec) == [course_idx |-> course_idx, at |-> at, sec |-> sec]

Top == stack[Len(stack)]

Return == SubSeq(stack, 1, Len(stack) - 1)

SetTop(f) == [stack EXCEPT ![Len(stack)] = f]

\* no call of another thread
NoThread == [pc |-> "none"]

\* nothing applied yet
NotApplied == [done |-> FALSE]

Applied(value) == [done |-> TRUE, value |-> value]

\* one caller, one call, one thread
OneCall ==
    /\ calls = 1
    /\ first_result = <<>>
    /\ again = "none"
    /\ parked = NoThread
    /\ tid = 1

\* GeminiAgent.__init__
GeminiAgent(api_keys) == [api_keys |-> api_keys, working_model |-> None]

\* no call of _call_gemini yet
NoRequest == [pc |-> "idle", number |-> 0]

\* an agent without keys that is never called
AgentOff ==
    /\ agent = GeminiAgent(<<>>)
    /\ request = NoRequest

NoFunction ==
    /\ fn = "none"
    /\ args = <<>>
    /\ ret = NotApplied
    /\ AgentOff

\* a list kept from call to call
FreshResults_kept == valid_schedules

\* `valid_schedules = []`: a new list in every call
FreshResults == <<>>

\* list.sort() for sorted(): the caller's list is sorted in place
InputAfterSort_inplace(cs) == SortCourses(cs)

\* sorted() builds a new list and leaves its argument as it was
InputAfterSort(cs) == cs

Init ==
    /\ OneCall
    /\ NoFunction
    /\ \E r \in Requests : courses = [i \in DOMAIN r |-> Catalog[r[i]]]
    /\ \/ raw_no_days = <<>> /\ constraints = NoConstraints
       \/ \E nd \in NoDaysInputs :
              raw_no_days = nd /\ constraints = ScheduleConstraints(nd)
    /\ max_schedules \in CapValues
    /\ sorted_courses = <<>>
    /\ valid_schedules = <<>>
    /\ current_schedule = <<>>
    /\ stack = <<>>
    /\ pc = "init"

\* generate_schedules up to the call backtrack(0, [])
Call ==
    /\ pc = "init"
    /\ sorted_courses' = SortCourses(courses)
    /\ courses' = InputAfterSort(courses)
    /\ valid_schedules' = FreshResults
    /\ current_schedule' = <<>>
    /\ stack' = << Frame(0, "entry", 1) >>
    /\ pc' = "run"
    /\ UNCHANGED <<others, raw_no_days, constraints, max_schedules>>

Running == pc = "run" /\ stack # <<>>

AtEntry == Running /\ Top.at = "entry"

\* line 18: the cap is reached, return
CapReturn ==
    /\ AtEntry
    /\ CapReached(Len(valid_schedules), max_schedules)
    /\ stack' = Return
    /\ UNCHANGED <<others, inputs, sorted_courses, valid_schedules, current_schedule, pc>>

\* lines 19-21: every course is placed, record a copy and return
Record ==
    /\ AtEntry
    /\ ~CapReached(Len(valid_schedules), max_schedules)
    /\ Top.course_idx = Len(sorted_courses)
    /\ valid_schedules' = Append(valid_schedules, current_schedule)
    /\ stack' = Return
    /\ UNCHANGED <<others, inputs, sorted_courses, current_schedule, pc>>

CurrentCourse == sorted_courses[Top.course_idx + 1]

AtCourse ==
    /\ AtEntry
    /\ ~CapReached(Len(valid_schedules), max_schedules)
    /\ Top.course_idx # Len(sorted_courses)

\* lines 28-36: a placed course and the current one are prerequisite-related
PrereqReturn ==
    /\ AtCourse
    /\ PrereqConflict(CurrentCourse, current_schedule, sorted_courses)
    /\ stack' = Return
    /\ UNCHANGED <<others, inputs, sorted_courses, valid_schedules, current_schedule, pc>>

\* line 38: start the loop over the sections of the current course
EnterLoop ==
    /\ AtCourse
    /\ ~PrereqConflict(CurrentCourse, current_schedule, sorted_courses)
    /\ stack' = SetTop(Frame(Top.course_idx, "loop", 1))
    /\ UNCHANGED <<others, inputs, sorted_courses, valid_schedules, current_schedule, pc>>

InLoop ==
    /\ Running
    /\ Top.at = "loop"
    /\ Top.sec <= Len(CurrentCourse.sections)

Candidate == CurrentCourse.sections[Top.sec]

Continue ==
    /\ stack' = SetTop(Frame(Top.course_idx, "loop", NextSection(Top.sec)))
    /\ UNCHANGED <<others, inputs, sorted_courses, valid_schedules, current_schedule, pc>>

\* line 39
SkipClosed ==
    /\ InLoop
    /\ ~IsOpen(Candidate)
    /\ Continue

\* line 42
SkipIssue ==
    /\ InLoop
    /\ IsOpen(Candidate)
    /\ has_issue(Candidate, current_schedule)
    /\ Continue

\* line 45
SkipConstraint ==
    /\ InLoop
    /\ IsOpen(Candidate)
    /\ ~has_issue(Candidate, current_schedule)
    /\ constraints.present /\ ~satisfies_constraints(Candidate, constraints)
    /\ Continue

\* lines 47-48: push the candidate and recurse
Push ==
    /\ InLoop
    /\ IsOpen(Candidate)
    /\ ~has_issue(Candidate, current_schedule)
    /\ ~(constraints.present /\ ~satisfies_constraints(Candidate, constraints))
    /\ current_schedule' = Append(current_schedule, Candidate)
    /\ valid_schedules' = RecordedAfter(valid_schedules, Append(current_schedule, Candidate))
    /\ stack' = Append(SetTop(Frame(Top.course_idx, "ret", Top.sec)),
                       Frame(Top.course_idx + 1, "entry", 1))
    /\ UNCHANGED <<others, inputs, sorted_courses, pc>>

\* line 49: the recursive call has returned, pop and go on with the next section
Pop ==
    /\ Running
    /\ Top.at = "ret"
    /\ current_schedule' = PopLast(current_schedule)
    /\ valid_schedules' = RecordedAfter(valid_schedules, PopLast(current_schedule))
    /\ stack' = SetTop(Frame(Top.course_idx, "loop", NextSection(Top.sec)))
    /\ UNCHANGED <<others, inputs, sorted_courses, pc>>

\* the section loop is exhausted: backtrack returns
LoopEnd ==
    /\ Running
    /\ Top.at = "loop"
    /\ Top.sec > Len(CurrentCourse.sections)
    /\ stack' = Return
    /\ UNCHANGED <<others, inputs, sorted_courses, valid_schedules, current_schedule, pc>>

\* line 52: backtrack(0, []) has returned, return valid_schedules
Finish ==
    /\ pc = "run"
    /\ stack = <<>>
    /\ pc' = "done"
    /\ UNCHANGED <<others, inputs, sorted_courses, valid_schedules, current_schedule, stack>>

Next ==
    \/ Call
    \/ CapReturn
    \/ Record
    \/ PrereqReturn
    \/ EnterLoop
    \/ SkipClosed
    \/ SkipIssue
    \/ SkipConstraint
    \/ Push
    \/ Pop
    \/ LoopEnd
    \/ Finish

Spec == Init /\ [][Next]_vars

\* the tokens a caller means a day by
IsDayToken(token) == token \in {"M", "m", "F", "f", "friday", "Fri"}

RemoveAt(list, i) == SubSeq(list, 1, i - 1) \o SubSeq(list, i + 1, Len(list))

\* the caller calls generate_schedules a second time with the same arguments
CallAgain ==
    /\ pc = "done"
    /\ calls = 1
    /\ calls' = 2
    /\ first_result' = valid_schedules
    /\ again' = "same"
    /\ pc' = "init"
    /\ UNCHANGED <<inputs, sorted_courses, valid_schedules, current_schedule, stack,
                   parked, tid, fn, args, ret, agent, request>>

\* the caller builds the constraints again without one token that names no
\* day, and calls generate_schedules a second time
CallAgainWithout ==
    /\ pc = "done"
    /\ calls = 1
    /\ constraints.present
    /\ \E i \in 1..Len(raw_no_days) :
          /\ ~IsDayToken(raw_no_days[i])
          /\ raw_no_days' = RemoveAt(raw_no_days, i)
          /\ constraints' = ScheduleConstraints(RemoveAt(raw_no_days, i))
    /\ calls' = 2
    /\ first_result' = valid_schedules
    /\ again' = "omitted"
    /\ pc' = "init"
    /\ UNCHANGED <<courses, max_schedules, sorted_courses, valid_schedules,
                   current_schedule, stack, parked, tid, fn, args, ret, agent, request>>

\* two courses of the list are directly related
DirectPair(cs) ==
    \E i, j \in 1..Len(cs) : i # j /\ cs[i].code \in cs[j].prereqs

\* the same courses, each built with prereqs=None
WithoutPrereqs(cs) == [i \in 1..Len(cs) |-> Course(cs[i].code, cs[i].sections, {})]

\* the caller builds the courses of a request without a directly related
\* pair again, with no prereqs, and calls generate_schedules a second time
CallAgainWithoutPrereqs ==
    /\ pc = "done"
    /\ calls = 1
    /\ ~DirectPair(courses)
    /\ \E i \in 1..Len(courses) : courses[i].prereqs # {}
    /\ courses' = WithoutPrereqs(courses)
    /\ calls' = 2
    /\ first_result' = valid_schedules
    /\ again' = "no_prereqs"
    /\ pc' = "init"
    /\ UNCHANGED <<raw_no_days, constraints, max_schedules, sorted_courses,
                   valid_schedules, current_schedule, stack, parked, tid, fn, args, ret, agent, request>>

NextRepeat ==
    \/ Next
    \/ CallAgain
    \/ CallAgainWithout
    \/ CallAgainWithoutPrereqs

\* one caller, two calls one after the other
SpecRepeat == Init /\ [][NextRepeat]_vars

\* no call of generate_schedules
EngineOff ==
    /\ courses = <<>>
    /\ raw_no_days = <<>>
    /\ constraints = NoConstraints
    /\ max_schedules = MAX_SCHEDULES
    /\ sorted_courses = <<>>
    /\ valid_schedules = <<>>
    /\ current_schedule = <<>>
    /\ stack = <<>>
    /\ pc = "off"

\* the TimeSlots a caller compares
ProbeSlots ==
    { TimeSlot(d, b, e, "BUSCH") : d \in {"M", "T"}, b \in 0..MaxMinute, e \in 0..MaxMinute }

InitOverlaps ==
    /\ EngineOff
    /\ OneCall
    /\ AgentOff
    /\ fn = "overlaps"
    /\ args \in ProbeSlots \X ProbeSlots
    /\ ret = NotApplied

\* a.overlaps(b)
ApplyOverlaps ==
    /\ fn = "overlaps"
    /\ ~ret.done
    /\ ret' = Applied(TimeSlotOverlaps(args[1], args[2]))
    /\ UNCHANGED <<engine, calls, first_result, again, parked, tid, fn, args, agent, request>>

\* the time strings of the raw meeting records; <<>> is a missing time
TimeStrings ==
    { <<"1", "1", "0", "0">>, <<"1", "2", ":", "1", "5">>, <<"0", "1", "0", "0">>,
      <<"a", "b">>, <<>> }

MeetingTime(day, start, end, pm, campus) ==
    [meetingDay |-> day, startTime |-> start, endTime |-> end, pmCode |-> pm,
     campusName |-> campus]

RawRecords ==
    { MeetingTime("M", b, e, pm, "Busch") :
          b \in TimeStrings, e \in TimeStrings, pm \in {"A", "P"} }
    \cup { MeetingTime(None, <<"1", "1", "0", "0">>, <<"1", "2", ":", "1", "5">>, "A", "Busch"),
           MeetingTime("M", <<"1", "1", "0", "0">>, <<"1", "2", ":", "1", "5">>, "A", None) }

InitParse ==
    /\ EngineOff
    /\ OneCall
    /\ AgentOff
    /\ fn = "parse"
    /\ args \in UNION { [1..n -> RawRecords] : n \in 0..MaxRecords }
    /\ ret = NotApplied

\* Section(section_data): time_slots = _parse_times(raw_times)
ApplyParse ==
    /\ fn = "parse"
    /\ ~ret.done
    /\ ret' = Applied(ParseTimes(args))
    /\ UNCHANGED <<engine, calls, first_result, again, parked, tid, fn, args, agent, request>>

\* Section._parse_times applied to the raw meeting records of a section
SpecParse == InitParse /\ [][ApplyParse]_vars

\* TimeSlot.overlaps applied to two TimeSlots
SpecOverlaps == InitOverlaps /\ [][ApplyOverlaps]_vars

\* course codes as the lists of their ':'-separated parts
CourseCodes ==
    { <<"198", "111">>, <<"01", "198", "111">>, <<"14", "198", "111">>,
      <<"198", "112">>, <<"CS111">> }

\* c.get(key) for a key the entry lacks: None, the code of no parts
NoCode == <<>>

\* an entry of the history
HistoryEntry(code, short_code) == [code |-> code, short_code |-> short_code]

HistoryEntries ==
    { HistoryEntry(<<"01", "198", "111">>, <<"198", "111">>),
      HistoryEntry(<<"198", "112">>, <<"198", "112">>),
      HistoryEntry(<<"CS111">>, <<"CS111">>),
      HistoryEntry(<<"01", "198", "111">>, NoCode),
      HistoryEntry(<<"14", "198", "111">>, NoCode),
      HistoryEntry(NoCode, <<"198", "112">>) }

\* the set built by the first loop of filter_completed_courses
CompletedCodes(history) ==
    UNION { {history[i].short_code, history[i].code} : i \in 1..Len(history) }

\* target.split(':') and the short form built from its parts
ShortTarget(target) ==
    LET parts == target
    IN  IF Len(parts) = 3 THEN <<parts[2], parts[3]>> ELSE target

\* PrerequisiteParser.filter_completed_courses
filter_completed_courses(target_courses, history) ==
    LET completed_codes == CompletedCodes(history)
        Needed(target) == ShortTarget(target) \notin completed_codes
    IN  SelectSeq(target_courses, Needed)

InitFilter ==
    /\ EngineOff
    /\ OneCall
    /\ AgentOff
    /\ fn = "filter"
    /\ args \in (UNION { [1..n -> CourseCodes] : n \in 0..MaxTargets })
                \X (UNION { [1..n -> HistoryEntries] : n \in 0..MaxTargets })
    /\ ret = NotApplied

ApplyFilter ==
    /\ fn = "filter"
    /\ ~ret.done
    /\ ret' = Applied(filter_completed_courses(args[1], args[2]))
    /\ UNCHANGED <<engine, calls, first_result, again, parked, tid, fn, args, agent, request>>

\* filter_completed_courses applied to a target list and a history
SpecFilter == InitFilter /\ [][ApplyFilter]_vars

\* the campuses of the slots compared
Campuses == {"BUSCH", "LIVINGSTON", "COLLEGE AVENUE", "ONLINE"}

\* the slots of a candidate section: before, around and after M 600-650
TravelSlots ==
    { TimeSlot(d, t[1], t[2], c) :
          d \in {"M", "T"},
          t \in { <<560, 570>>, <<550, 561>>, <<640, 660>>, <<650, 650>>,
                  <<679, 700>>, <<680, 700>>, <<689, 700>>, <<690, 700>> },
          c \in Campuses }

\* a placed section: no slot, or M 600-650 on one of the campuses
PlacedSections ==
    { Section("10001", <<>>, TRUE) }
    \cup { Section("10001", <<TimeSlot("M", 600, 650, c)>>, TRUE) : c \in Campuses }

InitTravel ==
    /\ EngineOff
    /\ OneCall
    /\ AgentOff
    /\ fn = "travel"
    /\ args \in { <<Section("10002", slots, TRUE), placed>> :
                      slots \in UNION { [1..n -> TravelSlots] : n \in 0..MaxTravelSlots },
                      placed \in PlacedSections }
    /\ ret = NotApplied

\* _check_travel(new_section, existing_section), and the same two sections
\* with the placed one as the candidate
ApplyTravel ==
    /\ fn = "travel"
    /\ ~ret.done
    /\ ret' = Applied(<< check_travel(args[1], args[2]), check_travel(args[2], args[1]) >>)
    /\ UNCHANGED <<engine, calls, first_result, again, parked, tid, fn, args, agent, request>>

\* _check_travel applied to two sections
SpecTravel == InitTravel /\ [][ApplyTravel]_vars

\* self.models, the first MaxKeys of them
Models ==
    SubSeq(<< "gemini-3-pro", "gemini-3-flash", "gemini-2.5-pro", "gemini-2.5-flash",
              "gemini-2.5-flash-lite", "gemini-2.0-flash", "gemini-2.0-flash-lite",
              "gemini-2.0-flash-exp" >>, 1, MaxKeys)

api_endpoints == << "v1beta", "v1" >>

\* the keys Config.get_api_keys returns: distinct, numbered here
ApiKeys(n) == [i \in 1..n |-> i]

InitGemini ==
    /\ EngineOff
    /\ OneCall
    /\ fn = "none"
    /\ args = <<>>
    /\ ret = NotApplied
    /\ \E n \in 0..MaxKeys : agent = GeminiAgent(ApiKeys(n))
    /\ request = NoRequest

Idle == request.pc \in {"idle", "returned"} /\ request.number < MaxGeminiCalls

\* lines 177-179: no key is configured
NoKeys ==
    /\ Idle
    /\ agent.api_keys = <<>>
    /\ request' = [pc |-> "returned", number |-> request.number + 1,
                   attempted |-> {}, result |-> None]
    /\ UNCHANGED <<engine, calls, first_result, again, parked, tid, fn, args, ret, agent>>

\* lines 181-190: the call starts with the first key and the first model
CallGemini ==
    /\ Idle
    /\ agent.api_keys # <<>>
    /\ request' = [pc |-> "loop", number |-> request.number + 1,
                   models_to_try |-> IF agent.working_model # None
                                     THEN << agent.working_model >> ELSE Models,
                   key |-> 1, model |-> 1, version |-> 1, attempt |-> 1,
                   attempted |-> {}, result |-> None]
    /\ UNCHANGED <<engine, calls, first_result, again, parked, tid, fn, args, ret, agent>>

\* line 282
GiveUp(r) == [r EXCEPT !.pc = "returned", !.result = None]

\* lines 276-277, then the next api_key of line 189
NextKey(r) ==
    IF agent.working_model # None THEN GiveUp(r)
    ELSE IF r.key < Len(agent.api_keys)
         THEN [r EXCEPT !.key = @ + 1, !.model = 1, !.version = 1, !.attempt = 1]
         ELSE GiveUp(r)

\* lines 272-273, then the next model of line 190
NextModel(r) ==
    IF agent.working_model = r.models_to_try[r.model] THEN NextKey(r)
    ELSE IF r.model < Len(r.models_to_try)
         THEN [r EXCEPT !.model = @ + 1, !.version = 1, !.attempt = 1]
         ELSE NextKey(r)

\* a break of the attempt loop, then the next api_version of line 196
NextVersion(r) ==
    IF r.version < Len(api_endpoints)
    THEN [r EXCEPT !.version = @ + 1, !.attempt = 1]
    ELSE NextModel(r)

\* the next attempt of line 200
NextAttempt(r) ==
    IF r.attempt < max_retries
    THEN [r EXCEPT !.attempt = @ + 1]
    ELSE NextVersion(r)

\* the request of line 230 is sent with the current key
Sent == [request EXCEPT !.attempted = @ \cup {agent.api_keys[request.key]}]

\* lines 237-244: status 200 with candidates
Succeeds ==
    /\ request.pc = "loop"
    /\ agent' = [agent EXCEPT !.working_model = request.models_to_try[request.model]]
    /\ request' = [Sent EXCEPT !.pc = "returned", !.result = "text"]
    /\ UNCHANGED <<engine, calls, first_result, again, parked, tid, fn, args, ret>>

\* lines 246-250, and status 200 without candidates: the next attempt
Retries ==
    /\ request.pc = "loop"
    /\ request' = NextAttempt(Sent)
    /\ UNCHANGED <<engine, calls, first_result, again, parked, tid, fn, args, ret, agent>>

\* lines 252-269: status 404, 403, another status, a timeout or an exception
Fails ==
    /\ request.pc = "loop"
    /\ request' = NextVersion(Sent)
    /\ UNCHANGED <<engine, calls, first_result, again, parked, tid, fn, args, ret, agent>>

NextGemini ==
    \/ NoKeys
    \/ CallGemini
    \/ Succeeds
    \/ Retries
    \/ Fails

\* calls of GeminiAgent._call_gemini, one after the other, on one agent
SpecGemini == InitGemini /\ [][NextGemini]_vars

\* the call runs on its thread until it returns
SpecFair == Init /\ [][Next]_vars /\ WF_vars(Next)

\* the requests of two concurrent calls: 640:151, 750:203 and 640:152
ThreadRequests ==
    { r \in Requests : Len(r) <= MaxThreadCourses /\ \A i \in 1..Len(r) : r[i] \in {3, 4, 6} }

\* the locals and arguments of one call of generate_schedules
Thread(cs, nd, cons, cap, sorted, results, partial, frames, at) ==
    [courses |-> cs, raw_no_days |-> nd, constraints |-> cons, max_schedules |-> cap,
     sorted_courses |-> sorted, valid_schedules |-> results,
     current_schedule |-> partial, stack |-> frames, pc |-> at]

\* the call of the running thread
Live ==
    Thread(courses, raw_no_days, constraints, max_schedules, sorted_courses,
           valid_schedules, current_schedule, stack, pc)

\* a call that has not begun
NewThreads ==
    { Thread([i \in DOMAIN r |-> Catalog[r[i]]], nd[1], nd[2], cap, <<>>, <<>>, <<>>, <<>>, "init") :
          r \in ThreadRequests,
          nd \in { << <<>>, NoConstraints >>, << <<"m">>, ScheduleConstraints(<<"m">>) >> },
          cap \in {1, MAX_SCHEDULES} }

\* one result list for both threads
OwnResults_shared(running, resumed) == running

\* valid_schedules is a local of generate_schedules: the thread that resumes
\* finds its own list
OwnResults(running, resumed) == resumed

InitThreads ==
    /\ NoFunction
    /\ calls = 1
    /\ first_result = <<>>
    /\ again = "none"
    /\ tid = 1
    /\ parked \in NewThreads
    /\ \E t \in NewThreads :
          /\ courses = t.courses
          /\ raw_no_days = t.raw_no_days
          /\ constraints = t.constraints
          /\ max_schedules = t.max_schedules
    /\ sorted_courses = <<>>
    /\ valid_schedules = <<>>
    /\ current_schedule = <<>>
    /\ stack = <<>>
    /\ pc = "init"

\* the interpreter suspends the running thread and resumes the other one
Switch ==
    /\ parked.pc \notin {"none", "done"}
    /\ parked' = Live
    /\ tid' = 3 - tid
    /\ courses' = parked.courses
    /\ raw_no_days' = parked.raw_no_days
    /\ constraints' = parked.constraints
    /\ max_schedules' = parked.max_schedules
    /\ sorted_courses' = parked.sorted_courses
    /\ valid_schedules' = OwnResults(valid_schedules, parked.valid_schedules)
    /\ current_schedule' = parked.current_schedule
    /\ stack' = parked.stack
    /\ pc' = parked.pc
    /\ UNCHANGED <<calls, first_result, again, fn, args, ret, agent, request>>

NextThreads ==
    \/ Next
    \/ Switch

\* two calls of generate_schedules on two threads, switched at any step
SpecThreads == InitThreads /\ [][NextThreads]_vars

-----------------------------------------------------------------------------
(* What the specification says a feasible schedule is, stated without the   *)
(* operators of the search                                                  *)

Result == valid_schedules

Returned == pc = "done"

SeqRange(s) == { s[i] : i \in 1..Len(s) }

SlotsOf(schedule) ==
    UNION { SeqRange(schedule[k].time_slots) : k \in 1..Len(schedule) }

\* half-open intervals on the same day intersect
Intersects(a, b) ==
    a.day = b.day /\ a.start_time < b.end_time /\ b.start_time < a.end_time

Virtual(campus) == campus = "ONLINE"

RequiredGap(a, b) ==
    IF {a.campus, b.campus} = {"BUSCH", "LIVINGSTON"} THEN 30 ELSE 40

TravelPair(a, b) ==
    a.day = b.day /\ a.campus # b.campus /\ ~Virtual(a.campus) /\ ~Virtual(b.campus)

\* one slot starts at least the required gap after the other ends
GapKept(a, b) ==
    \/ b.start_time - a.end_time >= RequiredGap(a, b)
    \/ a.start_time - b.end_time >= RequiredGap(a, b)

ExcludedDay(slot) == constraints.present /\ slot.day \in SeqRange(constraints.no_days)

Related(A, B) == A.code \in B.prereqs \/ B.code \in A.prereqs

\* position of the i-th input course after an ascending stable sort by
\* number of sections
Rank(i) ==
    1 + Cardinality({ j \in 1..Len(courses) :
            \/ Len(courses[j].sections) < Len(courses[i].sections)
            \/ Len(courses[j].sections) = Len(courses[i].sections) /\ j < i })

ExpectedSorted ==
    [k \in 1..Len(courses) |-> courses[CHOOSE i \in 1..Len(courses) : Rank(i) = k]]

MaxSections ==
    LET counts == { Len(courses[i].sections) : i \in 1..Len(courses) }
    IN  IF counts = {} THEN 0 ELSE CHOOSE m \in counts : \A c \in counts : c <= m

SchedOf(a) == [k \in 1..Len(courses) |-> ExpectedSorted[k].sections[a[k]]]

FeasibleAssignment(a) ==
    /\ \A k \in 1..Len(courses) : a[k] <= Len(ExpectedSorted[k].sections)
    /\ \A k \in 1..Len(courses) :
          LET sec == ExpectedSorted[k].sections[a[k]]
          IN  /\ sec.open_status
              /\ \A slot \in SeqRange(sec.time_slots) : ~ExcludedDay(slot)
              /\ \A i \in 1..(k - 1) :
                    LET placed == ExpectedSorted[i].sections[a[i]]
                    IN  /\ ~Related(ExpectedSorted[i], ExpectedSorted[k])
                        /\ \A x \in SeqRange(sec.time_slots) :
                              \A y \in SeqRange(placed.time_slots) :
                                  /\ ~Intersects(x, y)
                                  /\ TravelPair(x, y) => GapKept(x, y)

FeasibleSet ==
    { a \in [1..Len(courses) -> 1..MaxSections] : FeasibleAssignment(a) }

FeasibleCount == Cardinality(FeasibleSet)

LexLess(a, b) ==
    \E k \in 1..Len(courses) :
        a[k] < b[k] /\ \A j \in 1..(k - 1) : a[j] = b[j]

-----------------------------------------------------------------------------
(* Claims *)

\* C1: in every recorded Schedule, no TimeSlot of one Section overlaps a
\* TimeSlot of another Section of the same Schedule.
C1_OverlapExclusion ==
    \A n \in 1..Len(Result) :
        \A i, j \in 1..Len(Result[n]) :
            i # j =>
                \A x \in SeqRange(Result[n][i].time_slots) :
                    \A y \in SeqRange(Result[n][j].time_slots) : ~Intersects(x, y)

\* a Schedule of three Sections is returned although sections of two of the
\* requested courses overlap
C1_Witness ==
    /\ Returned
    /\ \E n \in 1..Len(Result) : Len(Result[n]) >= 3
    /\ \E i, j \in 1..Len(courses) :
          /\ i # j
          /\ \E a \in SeqRange(courses[i].sections) :
                \E b \in SeqRange(courses[j].sections) :
                    /\ a.open_status /\ b.open_status
                    /\ \E x \in SeqRange(a.time_slots) :
                          \E y \in SeqRange(b.time_slots) : Intersects(x, y)

PrereqPairRequested ==
    \E i, j \in 1..Len(courses) : i # j /\ courses[i].code \in courses[j].prereqs

\* C2: if two requested courses are prerequisite-related, no Schedule is ever
\* recorded, so generate_schedules returns the empty list.
C2_PrerequisiteExclusion == PrereqPairRequested => Result = <<>>

\* the call has returned for a request in which the course that names the
\* prerequisite is placed before the prerequisite, and a section of each is
\* open
C2_Witness ==
    /\ Returned
    /\ max_schedules > 0
    /\ Len(courses) = 2
    /\ sorted_courses[2].code \in sorted_courses[1].prereqs
    /\ \A k \in 1..2 : \E s \in SeqRange(courses[k].sections) : s.open_status

\* C3: with constraints supplied, no recorded Section meets on an excluded
\* day, and a requested course whose only section meets solely on excluded
\* days leaves the returned list empty.
C3_DayExclusion ==
    /\ \A n \in 1..Len(Result) : \A slot \in SlotsOf(Result[n]) : ~ExcludedDay(slot)
    /\ (/\ Returned
        /\ \E i \in 1..Len(courses) :
              /\ Len(courses[i].sections) = 1
              /\ courses[i].sections[1].time_slots # <<>>
              /\ \A slot \in SeqRange(courses[i].sections[1].time_slots) :
                    ExcludedDay(slot))
       => Result = <<>>

\* a section was refused for its day and a Schedule was still returned
C3_Witness ==
    /\ Returned
    /\ Result # <<>>
    /\ \E i \in 1..Len(courses) :
          \E s \in SeqRange(courses[i].sections) :
              s.open_status /\ \E slot \in SeqRange(s.time_slots) : ExcludedDay(slot)

\* C4 as stated: any two same-day TimeSlots of a Schedule on two different
\* non-virtual campuses keep the travel gap, whichever Sections they come from.
C4_TravelBufferAnySlots ==
    \A n \in 1..Len(Result) :
        \A x, y \in SlotsOf(Result[n]) : TravelPair(x, y) => GapKept(x, y)

\* C4, amended: any two same-day TimeSlots of two different Sections of a
\* Schedule on two different non-virtual campuses keep the travel gap (30
\* minutes for Busch/Livingston, 40 otherwise).
C4_TravelBufferAcrossSections ==
    \A n \in 1..Len(Result) :
        \A i, j \in 1..Len(Result[n]) :
            i # j =>
                \A x \in SeqRange(Result[n][i].time_slots) :
                    \A y \in SeqRange(Result[n][j].time_slots) :
                        TravelPair(x, y) => GapKept(x, y)

\* a returned Schedule holds two Sections that meet on the same day on two
\* different physical campuses
C4_Witness ==
    /\ Returned
    /\ \E n \in 1..Len(Result) :
          \E i, j \in 1..Len(Result[n]) :
              /\ i # j
              /\ \E x \in SeqRange(Result[n][i].time_slots) :
                    \E y \in SeqRange(Result[n][j].time_slots) : TravelPair(x, y)

\* C5: every recorded Section is open, and a requested course with only
\* closed sections leaves the returned list empty.
C5_OnlyOpenSections ==
    /\ \A n \in 1..Len(Result) :
          \A k \in 1..Len(Result[n]) : Result[n][k].open_status
    /\ (/\ Returned
        /\ \E i \in 1..Len(courses) :
              \A s \in SeqRange(courses[i].sections) : ~s.open_status)
       => Result = <<>>

\* a Schedule was returned for a request that has a closed section
C5_Witness ==
    /\ Returned
    /\ Result # <<>>
    /\ \E i \in 1..Len(courses) :
          \E s \in SeqRange(courses[i].sections) : ~s.open_status

\* C6: the number of recorded Schedules never exceeds the cap, and the
\* returned list holds exactly cap Schedules when at least cap assignments
\* are feasible.
C6_CapRespected ==
    /\ Len(Result) <= max_schedules
    /\ (Returned /\ FeasibleCount >= max_schedules) => Len(Result) = max_schedules

\* the call returned with the cap reached and feasible assignments left over
C6_Witness ==
    /\ Returned
    /\ max_schedules > 0
    /\ FeasibleCount > max_schedules
    /\ Len(Result) = max_schedules

\* C7: the returned list is the first min(cap, N) feasible assignments in
\* lexicographic order (courses in sorted order, sections in course order):
\* its i-th Schedule is the feasible assignment with exactly i-1 feasible
\* assignments before it.
C7_EnumerationOrder ==
    Returned =>
        /\ Len(Result) = Min(max_schedules, FeasibleCount)
        /\ \A i \in 1..Len(Result) :
              \E a \in FeasibleSet :
                  /\ Cardinality({ b \in FeasibleSet : LexLess(b, a) }) = i - 1
                  /\ Result[i] = SchedOf(a)

\* the cap cut the enumeration of a request of several courses whose sorted
\* order differs from the input order
C7_Witness ==
    /\ Returned
    /\ Len(courses) >= 2
    /\ ExpectedSorted # courses
    /\ max_schedules >= 2
    /\ FeasibleCount > max_schedules
    /\ Len(Result) = max_schedules

\* C8: every recorded Schedule has one Section per input course, the k-th
\* being a section of the k-th course of the input sorted ascending by
\* section count, ties in input order.
C8_ScheduleShape ==
    \A n \in 1..Len(Result) :
        /\ Len(Result[n]) = Len(courses)
        /\ \A k \in 1..Len(Result[n]) :
              Result[n][k] \in SeqRange(ExpectedSorted[k].sections)

\* a Schedule was returned for a request that the sort reorders and that has
\* two courses with equally many sections
C8_Witness ==
    /\ Returned
    /\ Result # <<>>
    /\ ExpectedSorted # courses
    /\ \E i, j \in 1..Len(courses) :
          i # j /\ Len(courses[i].sections) = Len(courses[j].sections)

InInputOrder ==
    \A n \in 1..Len(Result) :
        /\ Len(Result[n]) = Len(courses)
        /\ \A i \in 1..Len(Result[n]) :
              Result[n][i] \in SeqRange(courses[i].sections)

\* C9 as stated: the i-th Section of every Schedule is a section of the i-th
\* course of the input list.
C9_InputOrder == InInputOrder

InputAscending ==
    \A i, j \in 1..Len(courses) :
        i < j => Len(courses[i].sections) <= Len(courses[j].sections)

\* C9, amended: when the input list is already in ascending order of section
\* count, the i-th Section of every Schedule is a section of the i-th input
\* course.
C9_InputOrderWhenAscending == InputAscending => InInputOrder

\* a Schedule was returned for an ascending request with a tie
C9_Witness ==
    /\ Returned
    /\ Result # <<>>
    /\ InputAscending
    /\ \E i, j \in 1..Len(courses) :
          i # j /\ Len(courses[i].sections) = Len(courses[j].sections)

\* C10: when no assignment is feasible the call returns the empty list.
C10_InfeasibleIsEmpty == (Returned /\ FeasibleCount = 0) => Result = <<>>

\* the call has returned for a request every course of which has an open
\* section and no combination of which is feasible
C10_Witness ==
    /\ Returned
    /\ max_schedules > 0
    /\ FeasibleCount = 0
    /\ Len(courses) >= 2
    /\ ~PrereqPairRequested
    /\ \A i \in 1..Len(courses) :
          \E s \in SeqRange(courses[i].sections) :
              s.open_status /\ \A slot \in SeqRange(s.time_slots) : ~ExcludedDay(slot)

\* C11: a second call with the same courses, constraints and cap returns the
\* same list of Schedules, in the same order, as the first.
C11_Determinism ==
    (Returned /\ calls = 2 /\ again = "same") => Result = first_result

\* the second of two identical calls has returned several Schedules
C11_Witness ==
    /\ Returned
    /\ calls = 2
    /\ again = "same"
    /\ Len(Result) >= 2
    /\ Len(courses) >= 2

\* some minute lies in both half-open intervals [start, end)
ShareMinute(a, b) ==
    \E t \in 0..MaxMinute :
        /\ a.start_time <= t /\ t < a.end_time
        /\ b.start_time <= t /\ t < b.end_time

\* C12: a.overlaps(b) is true iff the slots are on the same day and their
\* half-open intervals intersect; slots on different days never overlap and
\* same-day slots that only touch do not overlap.
C12_OverlapsHalfOpen ==
    (fn = "overlaps" /\ ret.done) =>
        LET a == args[1]
            b == args[2]
        IN  /\ ret.value = (a.day = b.day /\ ShareMinute(a, b))
            /\ a.day # b.day => ~ret.value
            /\ (a.day = b.day /\ (a.end_time = b.start_time \/ b.end_time = a.start_time))
                  => ~ret.value

\* overlaps was applied to two same-day slots the first of which ends when
\* the second starts
C12_Witness ==
    /\ fn = "overlaps"
    /\ ret.done
    /\ args[1].day = args[2].day
    /\ args[1].start_time < args[1].end_time
    /\ args[1].end_time = args[2].start_time
    /\ args[2].start_time < args[2].end_time

\* C13: every TimeSlot that parsing produces has start_time < end_time.
C13_StartBeforeEnd ==
    (fn = "parse" /\ ret.done) =>
        \A slot \in SeqRange(ret.value) : slot.start_time < slot.end_time

\* a time field that holds digits, with or without the separator
Numeric(time_str) ==
    /\ \E i \in 1..Len(time_str) : time_str[i] \in Digits
    /\ \A i \in 1..Len(time_str) : time_str[i] \in Digits \cup {":"}

\* C14: a record with a start or end time that is not numeric produces no
\* TimeSlot: the Section has one TimeSlot per record with a day code and two
\* numeric times.
C14_MalformedDropped ==
    (fn = "parse" /\ ret.done) =>
        Len(ret.value) =
            Cardinality({ i \in 1..Len(args) :
                /\ args[i].meetingDay # None
                /\ Numeric(args[i].startTime)
                /\ Numeric(args[i].endTime) })

\* the day a token names, in any case, in full or in part
DayNamed(token) ==
    CASE token \in {"F", "f", "friday", "Fri"} -> "F"
      [] token \in {"M", "m"} -> "M"
      [] OTHER -> None

NamedDays == { DayNamed(raw_no_days[i]) : i \in 1..Len(raw_no_days) } \ {None}

\* C15: a day token given in any case or as a day name ('friday', 'Fri', 'f')
\* excludes every section that meets on the day it names: no returned
\* Schedule has a TimeSlot on a named day.
C15_NamedDayExcluded ==
    \A n \in 1..Len(Result) : \A slot \in SlotsOf(Result[n]) : slot.day \notin NamedDays

\* C16: a token that names no day adds no exclusion: the call returns what
\* the call with that token omitted returns.
C16_UnrecognizedIgnored ==
    (Returned /\ calls = 2 /\ again = "omitted") => Result = first_result

\* both calls returned Schedules, with sections on the day whose letter the
\* omitted token contains
C16_Witness ==
    /\ Returned
    /\ calls = 2
    /\ again = "omitted"
    /\ Result # <<>>
    /\ \E n \in 1..Len(Result) : \E slot \in SlotsOf(Result[n]) : slot.day = "M"

\* a token and its upper-case form
UpperForms ==
    { <<"F", "F">>, <<"f", "F">>, <<"m", "M">>, <<"friday", "FRIDAY">>,
      <<"Fri", "FRI">>, <<"someday", "SOMEDAY">> }

LowerCased == {"f", "m", "friday", "Fri", "someday"}

\* C17: every supplied token is kept, in its upper-case form, in
\* constraints.no_days; none is dropped and none stays in lower case.
C17_TokensUpperCased ==
    constraints.present =>
        /\ Len(constraints.no_days) = Len(raw_no_days)
        /\ \A i \in 1..Len(raw_no_days) :
              /\ <<raw_no_days[i], constraints.no_days[i]>> \in UpperForms
              /\ InList(constraints.no_days[i], constraints.no_days)
        /\ \A i \in 1..Len(constraints.no_days) : constraints.no_days[i] \notin LowerCased

\* constraints built from lower-case tokens were used by a call that returned
C17_Witness ==
    /\ Returned
    /\ constraints.present
    /\ Len(raw_no_days) = 2
    /\ \A i \in 1..Len(raw_no_days) : raw_no_days[i] \in LowerCased

\* C18: no step of generate_schedules changes the input course list (its
\* order, its Courses, Sections and TimeSlots), the constraints or the cap.
C18_InputsNotMutated ==
    [][courses' = courses /\ constraints' = constraints /\ max_schedules' = max_schedules]_vars

\* a call returned Schedules for a course list the engine had to reorder
C18_Witness ==
    /\ Returned
    /\ Result # <<>>
    /\ sorted_courses # courses

\* C20: every call of generate_schedules returns, by exhausting the search
\* or by reaching the cap.
C20_Terminates == <>(pc = "done")

\* a call on MaxCourses courses returned several Schedules with the search
\* exhausted under the cap
C20_Witness ==
    /\ Returned
    /\ Len(courses) = MaxCourses
    /\ FeasibleCount > 1
    /\ Len(Result) = FeasibleCount
    /\ Len(Result) < max_schedules

ExcludedBy(cons, slot) == cons.present /\ slot.day \in SeqRange(cons.no_days)

\* the sections a[1], a[2], ... of the courses in search order form a
\* Schedule the call accepts
AloneFeasible(sorted, cons, a) ==
    \A k \in 1..Len(sorted) :
        /\ a[k] <= Len(sorted[k].sections)
        /\ LET sec == sorted[k].sections[a[k]]
           IN  /\ sec.open_status
               /\ \A slot \in SeqRange(sec.time_slots) : ~ExcludedBy(cons, slot)
               /\ \A i \in 1..(k - 1) :
                     /\ ~Related(sorted[i], sorted[k])
                     /\ a[i] <= Len(sorted[i].sections)
                     /\ \A x \in SeqRange(sec.time_slots) :
                           \A y \in SeqRange(sorted[i].sections[a[i]].time_slots) :
                               /\ ~Intersects(x, y)
                               /\ TravelPair(x, y) => GapKept(x, y)

\* what the call of thread t returns when it runs alone: the first
\* max_schedules accepted Schedules in search order
ReturnsAsAlone(t) ==
    LET sorted == SortCourses(t.courses)
        n == Len(sorted)
        most == Cardinality(UNION { DOMAIN sorted[k].sections : k \in 1..n })
        accepted == { a \in [1..n -> 1..most] : AloneFeasible(sorted, t.constraints, a) }
        Before(a) == { b \in accepted :
                          \E k \in 1..n : b[k] < a[k] /\ \A j \in 1..(k - 1) : b[j] = a[j] }
    IN  /\ Len(t.valid_schedules) = Min(t.max_schedules, Cardinality(accepted))
        /\ \A i \in 1..Len(t.valid_schedules) :
              \E a \in accepted :
                  /\ Cardinality(Before(a)) = i - 1
                  /\ t.valid_schedules[i] = [k \in 1..n |-> sorted[k].sections[a[k]]]

\* C19: under every interleaving of the steps of two concurrent calls, each
\* call returns exactly the result it returns when run alone.
C19_ThreadsDoNotInterfere ==
    \A t \in {Live, parked} : t.pc = "done" => ReturnsAsAlone(t)

\* both calls returned, the first one after the second one, with different
\* Schedules
C19_Witness ==
    /\ Returned
    /\ parked.pc = "done"
    /\ tid = 1
    /\ Result # <<>>
    /\ parked.valid_schedules # <<>>
    /\ Len(courses) = MaxThreadCourses
    /\ Len(parked.courses) = MaxThreadCourses
    /\ Result # parked.valid_schedules

\* the subject:number form of a school:subject:number code
SubjectNumber(target) ==
    IF Len(target) = 3 THEN SubSeq(target, 2, 3) ELSE target

\* some history entry's code or short_code is the target or its short form
InHistory(target, history) ==
    \E i \in 1..Len(history) :
        \/ history[i].code \in {target, SubjectNumber(target)}
        \/ history[i].short_code \in {target, SubjectNumber(target)}

\* the targets from the k-th on that the history does not name, in their order
RECURSIVE KeepOthers(_, _, _)
KeepOthers(targets, history, k) ==
    IF k > Len(targets) THEN <<>>
    ELSE (IF InHistory(targets[k], history) THEN <<>> ELSE <<targets[k]>>)
             \o KeepOthers(targets, history, k + 1)

C22_PushPopDiscipline ==
    /\ (pc = "run" /\ stack # <<>>) =>
          /\ \A j \in 1..Len(stack) : stack[j].course_idx = j - 1
          /\ \A j \in 1..(Len(stack) - 1) : stack[j].at = "ret"
          /\ Top.at \in {"entry", "loop"} => Len(current_schedule) = Top.course_idx
          /\ Top.at = "ret" => Len(current_schedule) = Top.course_idx + 1
          /\ \A i \in 1..Len(current_schedule) :
                /\ i <= Len(sorted_courses)
                /\ current_schedule[i] \in SeqRange(sorted_courses[i].sections)
    /\ (pc = "run" /\ stack = <<>>) => current_schedule = <<>>
    /\ Returned => current_schedule = <<>>

\* a recursive step for the last course returned with the cap reached, and
\* the caller's pushes are still on the partial schedule
C22_Witness ==
    /\ pc = "run"
    /\ stack # <<>>
    /\ Top.at = "ret"
    /\ Len(stack) = MaxCourses
    /\ Len(current_schedule) = MaxCourses
    /\ Len(valid_schedules) = max_schedules

\* C23: a recorded Schedule is a copy: no step after its recording, push or
\* pop, changes its place in the result list, its length or its contents.
C23_RecordedAreCopies ==
    [][\A i \in 1..Len(valid_schedules) :
           /\ i <= Len(valid_schedules')
           /\ valid_schedules'[i] = valid_schedules[i]]_vars

\* after a Schedule was recorded, pushes have built another full assignment
C23_Witness ==
    /\ pc = "run"
    /\ valid_schedules # <<>>
    /\ Len(current_schedule) = Len(sorted_courses)
    /\ Len(sorted_courses) >= 2
    /\ current_schedule \notin SeqRange(valid_schedules)

\* the number of recorded Schedules has reached the cap and the call has
\* not returned yet
CapHit == pc = "run" /\ stack # <<>> /\ Len(valid_schedules) >= max_schedules

\* C24 as stated: once the cap is reached, no further candidate section is
\* checked or pushed and no further Schedule is recorded before the return.
C24_CapStopsSearch ==
    [][CapHit =>
           /\ Top.at # "loop" \/ Top.sec > Len(sorted_courses[Top.course_idx + 1].sections)
           /\ Len(current_schedule') <= Len(current_schedule)
           /\ valid_schedules' = valid_schedules]_vars

\* C24, amended: once the cap is reached no further Schedule is recorded, and
\* every recursive step entered from then on returns at its cap test without
\* starting a section loop; the section loops already running still check
\* and push their remaining candidates, and each such push is popped as soon
\* as the step it was pushed for has returned.
C24_CapStopsRecording ==
    [][CapHit =>
           /\ valid_schedules' = valid_schedules
           /\ Top.at = "entry" => stack' = SubSeq(stack, 1, Len(stack) - 1)
           /\ Top.at = "ret" => Len(current_schedule') = Len(current_schedule) - 1
           /\ Len(current_schedule') > Len(current_schedule) =>
                 /\ Top.at = "loop"
                 /\ stack'[Len(stack')].at = "entry"]_vars

\* with the cap reached, a loop that was running has pushed a further
\* candidate, for a course that is not the last one
C24_Witness ==
    /\ CapHit
    /\ max_schedules >= 1
    /\ Top.at = "entry"
    /\ Top.course_idx >= 1
    /\ Top.course_idx < Len(sorted_courses)

\* C25: for a request without a directly related pair of courses the prereqs
\* sets have no effect: the call returns what the call for the same courses
\* with every prereqs set emptied returns, also when two requested courses
\* are linked through a course that is not requested.
C25_DirectPairsOnly ==
    (Returned /\ calls = 2 /\ again = "no_prereqs") =>
        /\ Result = first_result
        /\ \A n \in 1..Len(Result) : Len(Result[n]) = Len(courses)

\* both calls returned Schedules for a request of 198:112, which requires
\* 160:161, and 198:111, which 160:161 requires, without 160:161
C25_Witness ==
    /\ Returned
    /\ calls = 2
    /\ again = "no_prereqs"
    /\ Result # <<>>
    /\ \E i, j \in 1..Len(courses) :
          \E b \in 1..Len(Catalog) :
              /\ \A k \in 1..Len(courses) : courses[k].code # Catalog[b].code
              /\ \E a \in 1..Len(Catalog) :
                    /\ Catalog[a].code = courses[i].code
                    /\ Catalog[b].code \in Catalog[a].prereqs
              /\ courses[j].code \in Catalog[b].prereqs

\* the gap from the end of the earlier slot to the start of the later one
GapBetween(a, b) ==
    IF a.start_time <= b.start_time
    THEN b.start_time - a.end_time
    ELSE a.start_time - b.end_time

\* C26: a candidate is rejected for travel against a placed section iff some
\* pair of their TimeSlots is on the same day, on two different campuses
\* neither of them online, with a gap below the allowance of the pair (30
\* minutes for Busch/Livingston, 40 otherwise); a gap equal to the allowance
\* is accepted, and the decision is the same with the two sections exchanged.
C26_TravelRule ==
    (fn = "travel" /\ ret.done) =>
        LET rejected == ~ret.value[1]
            TooClose(x, y) == TravelPair(x, y) /\ GapBetween(x, y) < RequiredGap(x, y)
        IN  /\ rejected = (\E x \in SeqRange(args[1].time_slots) :
                              \E y \in SeqRange(args[2].time_slots) : TooClose(x, y))
            /\ (\A x \in SeqRange(args[1].time_slots) :
                   \A y \in SeqRange(args[2].time_slots) :
                       TravelPair(x, y) => GapBetween(x, y) >= RequiredGap(x, y)) => ~rejected
            /\ ret.value[2] = ret.value[1]

\* a candidate of two slots is accepted with a slot exactly the allowance
\* away from the placed slot, on another campus
C26_Witness ==
    /\ fn = "travel"
    /\ ret.done
    /\ ret.value[1]
    /\ Len(args[1].time_slots) = MaxTravelSlots
    /\ \E x \in SeqRange(args[1].time_slots) :
          \E y \in SeqRange(args[2].time_slots) :
              /\ TravelPair(x, y)
              /\ GapBetween(x, y) = RequiredGap(x, y)
              /\ RequiredGap(x, y) = SHORT_TRAVEL_MINUTES

\* HHMM or HH:MM
WellFormed(time_str) ==
    \/ Len(time_str) = 4 /\ \A i \in 1..4 : time_str[i] \in Digits
    \/ Len(time_str) = 5 /\ time_str[3] = ":" /\ \A i \in {1, 2, 4, 5} : time_str[i] \in Digits

\* HH*60+MM, and 720 more for PM unless HH is 12
ClockMinutes(time_str, pm) ==
    LET HH == DigitValue(time_str[1]) * 10 + DigitValue(time_str[2])
        MM == DigitValue(time_str[Len(time_str) - 1]) * 10 + DigitValue(time_str[Len(time_str)])
    IN  HH * 60 + MM + (IF pm = "P" /\ HH # 12 THEN 720 ELSE 0)

\* C27: for a record with well-formed times, start and end become HH*60+MM,
\* plus 720 when the indicator is PM and HH is not 12 (12 with AM stays 720);
\* then 720 is added to end if end is less than start, and end is left as it
\* is otherwise.
C27_TimeConversion ==
    (fn = "parse" /\ ret.done /\ Len(ret.value) = Len(args)) =>
        \A i \in 1..Len(args) :
            (WellFormed(args[i].startTime) /\ WellFormed(args[i].endTime)) =>
                LET start == ClockMinutes(args[i].startTime, args[i].pmCode)
                    end == ClockMinutes(args[i].endTime, args[i].pmCode)
                IN  /\ ret.value[i].start_time = start
                    /\ ret.value[i].end_time = IF end < start THEN end + 720 ELSE end

\* a PM record from 11:00 to 12:15 was parsed: 12 hours added to the start,
\* none to the end for its hour 12, then 12 hours for the end before the start
C27_Witness ==
    /\ fn = "parse"
    /\ ret.done
    /\ Len(args) = MaxRecords
    /\ Len(ret.value) = Len(args)
    /\ args[1].pmCode = "P"
    /\ args[1].startTime = <<"1", "1", "0", "0">>
    /\ args[1].endTime = <<"1", "2", ":", "1", "5">>
    /\ ret.value[1].start_time = 1380
    /\ ret.value[1].end_time = 1455

\* a TimeSlot of the candidate is on an excluded day, or intersects or is
\* too close to a TimeSlot of a placed Section
SlotReason(candidate, schedule) ==
    \E x \in SeqRange(candidate.time_slots) :
        \/ ExcludedDay(x)
        \/ \E k \in 1..Len(schedule) :
              \E y \in SeqRange(schedule[k].time_slots) :
                  \/ Intersects(x, y)
                  \/ TravelPair(x, y) /\ ~GapKept(x, y)

\* C28: a Section without TimeSlots imposes no time constraint: an open
\* candidate is rejected only for one of its own TimeSlots against an excluded
\* day or against a TimeSlot of a placed Section, so a candidate without
\* TimeSlots is always placed and a placed one never makes a later candidate
\* be rejected.
C28_NoSlotsNoConstraint ==
    [][(/\ pc = "run"
        /\ stack # <<>>
        /\ Top.at = "loop"
        /\ Top.sec <= Len(sorted_courses[Top.course_idx + 1].sections)
        /\ sorted_courses[Top.course_idx + 1].sections[Top.sec].open_status
        /\ ~SlotReason(sorted_courses[Top.course_idx + 1].sections[Top.sec], current_schedule))
       => current_schedule' =
              Append(current_schedule, sorted_courses[Top.course_idx + 1].sections[Top.sec])]_vars

\* with days excluded, a Section without TimeSlots was placed and a later
\* candidate was placed after it
C28_Witness ==
    /\ pc = "run"
    /\ constraints.present
    /\ constraints.no_days # <<>>
    /\ \E k \in 1..(Len(current_schedule) - 1) :
          /\ current_schedule[k].time_slots = <<>>
          /\ current_schedule[k + 1].time_slots # <<>>

\* C29: with an empty course list and a cap of at least 1 the call returns
\* one Schedule, the empty one; with a cap of 0 it returns the empty list,
\* whatever the courses are.
C29_EmptyRequest ==
    Returned =>
        /\ (courses = <<>> /\ max_schedules >= 1) => Result = << <<>> >>
        /\ max_schedules = 0 => Result = <<>>

\* the call returned the empty Schedule for an empty request, with
\* constraints supplied
C29_Witness ==
    /\ Returned
    /\ courses = <<>>
    /\ max_schedules >= 1
    /\ constraints.present
    /\ Len(Result) = 1
    /\ Result[1] = <<>>

\* C30: a call of _call_gemini returns None only after it has sent a request
\* with every configured API key, also when an earlier call has cached a
\* working model.
C30_EveryKeyTried ==
    (request.pc = "returned" /\ request.result = None) =>
        request.attempted = SeqRange(agent.api_keys)

=============================================================================
